---- MODULE Spec2Model ----
(***************************************************************************)
(* Korus feedback bot: the FriendWork intake webhook (friendwork.py), the  *)
(* in-memory stores (storage.py), the aiogram conversation handlers        *)
(* (bot.py) and the sheet write path (sheets.py).                          *)
(*                                                                         *)
(* Text is a sequence of one-character strings, so that str.strip,         *)
(* str.lower and int() are computed rather than assumed.  An optional      *)
(* value (Python None) is the empty sequence or an absent key.             *)
(***************************************************************************)
EXTENDS Integers, Sequences, FiniteSets, TLC

(***************************************************************************)
(* Text helpers: str.strip(), str.lower(), int(str).                       *)
(***************************************************************************)
UpperChars == <<"A","B","C","D","E","F","G","H","I","J","K","L","M",
                "N","O","P","Q","R","S","T","U","V","W","X","Y","Z">>
LowerChars == <<"a","b","c","d","e","f","g","h","i","j","k","l","m",
                "n","o","p","q","r","s","t","u","v","w","x","y","z">>
DigitChars == <<"0","1","2","3","4","5","6","7","8","9">>

RECURSIVE LStrip(_)
LStrip(s) == IF s # <<>> /\ Head(s) = " " THEN LStrip(Tail(s)) ELSE s

RECURSIVE RStrip(_)
RStrip(s) == IF s # <<>> /\ s[Len(s)] = " " THEN RStrip(SubSeq(s, 1, Len(s) - 1)) ELSE s

\* str.strip(): leading and trailing whitespace removed, inner whitespace kept.
Strip(s) == RStrip(LStrip(s))

LowerChar(c) ==
    IF \E i \in 1..26 : UpperChars[i] = c
    THEN LowerChars[CHOOSE i \in 1..26 : UpperChars[i] = c]
    ELSE c

\* str.lower()
Lower(s) == [i \in 1..Len(s) |-> LowerChar(s[i])]

IsDigit(c) == \E i \in 1..10 : DigitChars[i] = c
DigitVal(c) == (CHOOSE i \in 1..10 : DigitChars[i] = c) - 1

RECURSIVE DigitsVal(_)
DigitsVal(s) == IF s = <<>> THEN 0 ELSE 10 * DigitsVal(SubSeq(s, 1, Len(s) - 1)) + DigitVal(s[Len(s)])

AllDigits(s) == s # <<>> /\ \A i \in 1..Len(s) : IsDigit(s[i])

\* int(s) raises ValueError unless s is an optional sign followed by digits.
IntParses(s) ==
    LET t == Strip(s) IN
    IF t # <<>> /\ Head(t) \in {"-", "+"} THEN AllDigits(Tail(t)) ELSE AllDigits(t)

IntValue(s) ==
    LET t == Strip(s) IN
    IF Head(t) = "-" THEN 0 - DigitsVal(Tail(t))
    ELSE IF Head(t) = "+" THEN DigitsVal(Tail(t))
    ELSE DigitsVal(t)

(***************************************************************************)
(* Identifiers and configuration.                                          *)
(***************************************************************************)
UserIds == {42, 7, 9}
NoUser == [telegram_id |-> 0]

GoodSecret == "fw_korus_feedback_2025_secret"
Secrets == {GoodSecret, "wrong", "absent"}

AdminChat == 1000
NoAdmin == 0

EmptyData == [k \in {} |-> 0]
NoVacancy == [vacancy_id |-> "none"]

Jane == <<"J","a","n","e">>
Omar == <<"O","m","a","r">>
Unknown == <<"U","n","k","n","o","w","n">>
Ann == <<"A","n","n">>
Ivo == <<"I","v","o">>

VacancyIds == {"v1", "v2", "manual"}

\* VacancyAssignment(vacancy_id, vacancy_title, recruiter_name, hiring_manager_ids)
VacancyAssignment(vid, title, recruiter, managers) ==
    [vacancy_id |-> vid, vacancy_title |-> title, recruiter_name |-> recruiter,
     hiring_manager_ids |-> managers]

\* User(...) with the dataclass defaults permission_level and status.
User(id, full_name, title, contact) ==
    [telegram_id |-> id, full_name |-> full_name, title |-> title, contact |-> contact,
     permission_level |-> "hiring_manager", status |-> "active"]

\* The user lists an operator seeds the Identity Store with.
SeedBatches ==
    { <<User(42, Ann, <<>>, <<>>)>>,
      <<[User(7, Ivo, <<>>, <<>>) EXCEPT !.status = "inactive"]>> }

\* The FriendWorkEvent bodies the upstream system delivers.
Payloads ==
    { [event_id |-> "e1", vacancy_id |-> "v1", vacancy_title |-> "Backend Engineer",
       recruiter_name |-> Jane, hiring_manager_ids |-> <<42, 7, 9>>],
      [event_id |-> "e1", vacancy_id |-> "v2", vacancy_title |-> "Data Analyst",
       recruiter_name |-> Omar, hiring_manager_ids |-> <<7>>],
      [event_id |-> "e2", vacancy_id |-> "v1", vacancy_title |-> "Backend Engineer II",
       recruiter_name |-> Omar, hiring_manager_ids |-> <<>>] }

EventIds == {"e1", "e2"}

\* Number of deliveries of the intake webhook that are handled in one run.
MaxDeliveries == 2
Deliveries == 1..MaxDeliveries

NoRequest == [event_id |-> "none"]

VARIABLES
    users,            \* UserStore._users: telegram id -> User (NoUser: absent)
    vacancies,        \* VacancyStore._vacancies: vacancy id -> VacancyAssignment
    seen,             \* EventStore._seen
    feedback_buffer,  \* FeedbackBuffer._items
    admin_chat_id,    \* Settings.admin_chat_id (NoAdmin: None)
    ctx_sheets,       \* AppContext.sheets is not None
    ctx_speech,       \* AppContext.speech is not None
    pc,               \* position of each friendwork_webhook call
    req,              \* its payload
    secret,           \* its x-friendwork-secret header
    idx,              \* its position in the send_feedback_request loop
    attempts,         \* the bot.send_message calls it made: <<[to, ok]>>
    status,           \* its response
    after_completed,  \* it was received after a delivery of the same event_id had returned
    dedup_checked,    \* it has called EventStore.seen
    fsm_state,        \* MemoryStorage: user -> state
    fsm_data,         \* MemoryStorage: user -> data
    outbox,           \* the replies the last conversation handler attempted: <<[to, msg, ok]>>
    result,           \* how the last conversation handler ended
    sink_call,        \* the append_feedback call the last conversation handler made
    update,           \* the update the last conversation handler was run for: [from, ev]
    tasks,            \* the handlers that are past their dispatch and not finished
    script,           \* the inputs one reviewer is going to send, in order
    step,             \* how many of them have been handled
    recent            \* the last FeedbackBuffer.list_recent call: its limit, the items, its answer

store_vars == <<users, vacancies, seen, feedback_buffer>>
config_vars == <<admin_chat_id, ctx_sheets, ctx_speech>>
intake_vars == <<pc, req, secret, idx, attempts, status, after_completed, dedup_checked>>
chat_vars == <<fsm_state, fsm_data, outbox, result, sink_call, update, tasks>>
script_vars == <<script, step>>
view_vars == <<recent>>
vars == <<store_vars, config_vars, intake_vars, chat_vars, script_vars, view_vars>>

(***************************************************************************)
(* Stores.                                                                 *)
(***************************************************************************)
UserStoreGet(id) == users[id]
UserStoreUpsert(store, user) == [store EXCEPT ![user.telegram_id] = user]
VacancyStoreGet(vid) == IF vid \in VacancyIds THEN vacancies[vid] ELSE NoVacancy
\* Fault: an assignment without reviewers is not stored.
VacancyStoreUpsert_unless_empty(store, vacancy) ==
    IF vacancy.hiring_manager_ids = <<>> THEN store ELSE [store EXCEPT ![vacancy.vacancy_id] = vacancy]
VacancyStoreUpsert(store, vacancy) == [store EXCEPT ![vacancy.vacancy_id] = vacancy]
\* Fault: seen() that answers False for every id.
EventStoreSeen_never(event_id) == FALSE
EventStoreSeen(event_id) == event_id \in seen
\* Fault: mark() that records nothing.
EventStoreMark_forgets(store, event_id) == store
EventStoreMark(store, event_id) == store \cup {event_id}
FeedbackBufferAdd(items, record) == Append(items, record)

NoSink == [called |-> FALSE]
NoListing == [called |-> FALSE]
NoUpdate == [from |-> 0]

\* Number of handlers that can be between their dispatch and their end at one time.
MaxTasks == 2
TaskIds == 1..MaxTasks
IdleTask == [pc |-> "idle"]

EmptyStores ==
    /\ users = [id \in UserIds |-> NoUser]
    /\ vacancies = [v \in VacancyIds |-> NoVacancy]
    /\ seen = {}
    /\ feedback_buffer = <<>>
    /\ recent = NoListing

IdleIntake ==
    /\ pc = [p \in Deliveries |-> "idle"]
    /\ req = [p \in Deliveries |-> NoRequest]
    /\ secret = [p \in Deliveries |-> "absent"]
    /\ idx = [p \in Deliveries |-> 0]
    /\ attempts = [p \in Deliveries |-> <<>>]
    /\ status = [p \in Deliveries |-> "none"]
    /\ after_completed = [p \in Deliveries |-> FALSE]
    /\ dedup_checked = [p \in Deliveries |-> FALSE]

IdleChat ==
    /\ fsm_state = [u \in UserIds |-> "none"]
    /\ fsm_data = [u \in UserIds |-> EmptyData]
    /\ outbox = <<>>
    /\ result = "none"
    /\ sink_call = NoSink
    /\ update = NoUpdate
    /\ tasks = [t \in TaskIds |-> IdleTask]

NoScript ==
    /\ script = <<>>
    /\ step = 0

(***************************************************************************)
(* friendwork_webhook: one action per await of the handler.                *)
(***************************************************************************)
Completed(q) == pc[q] = "done" /\ status[q] \in {"ok", "no_managers", "duplicate"}

\* Fault: only a missing header is rejected.
Authenticated_lax(header) == header # "absent"

\* The header check; HTTPException(401) ends the call before any store is used.
Authenticated(header) == header = GoodSecret

Receive(p, payload, header) ==
    /\ pc[p] = "idle"
    /\ req' = [req EXCEPT ![p] = payload]
    /\ secret' = [secret EXCEPT ![p] = header]
    /\ after_completed' = [after_completed EXCEPT ![p] =
           \E q \in Deliveries : Completed(q) /\ req[q].event_id = payload.event_id]
    /\ IF Authenticated(header)
       THEN pc' = [pc EXCEPT ![p] = "seen"] /\ UNCHANGED status
       ELSE pc' = [pc EXCEPT ![p] = "done"] /\ status' = [status EXCEPT ![p] = "401"]
    /\ UNCHANGED <<store_vars, config_vars, idx, attempts, dedup_checked, chat_vars, script_vars, view_vars>>

\* await event_store.seen(payload.event_id)
CheckSeen(p) ==
    /\ pc[p] = "seen"
    /\ dedup_checked' = [dedup_checked EXCEPT ![p] = TRUE]
    /\ IF EventStoreSeen(req[p].event_id)
       THEN pc' = [pc EXCEPT ![p] = "done"] /\ status' = [status EXCEPT ![p] = "duplicate"]
       ELSE pc' = [pc EXCEPT ![p] = "mark"] /\ UNCHANGED status
    /\ UNCHANGED <<store_vars, config_vars, req, secret, idx, attempts, after_completed, chat_vars, script_vars, view_vars>>

\* await event_store.mark(payload.event_id)
Mark(p) ==
    /\ pc[p] = "mark"
    /\ seen' = EventStoreMark(seen, req[p].event_id)
    /\ pc' = [pc EXCEPT ![p] = "upsert"]
    /\ UNCHANGED <<users, vacancies, feedback_buffer, config_vars, req, secret, idx, attempts,
                   status, after_completed, dedup_checked, chat_vars, script_vars, view_vars>>

\* await ctx.vacancy_store.upsert(vacancy), then the branch on the reviewer list
Upsert(p) ==
    /\ pc[p] = "upsert"
    /\ vacancies' = VacancyStoreUpsert(vacancies,
           VacancyAssignment(req[p].vacancy_id, req[p].vacancy_title,
                             req[p].recruiter_name, req[p].hiring_manager_ids))
    /\ IF req[p].hiring_manager_ids = <<>>
       THEN pc' = [pc EXCEPT ![p] = "notify"] /\ UNCHANGED idx
       ELSE pc' = [pc EXCEPT ![p] = "fanout_get"] /\ idx' = [idx EXCEPT ![p] = 1]
    /\ UNCHANGED <<users, seen, feedback_buffer, config_vars, req, secret, attempts,
                   status, after_completed, dedup_checked, chat_vars, script_vars, view_vars>>

\* notify_admin: skipped without admin_chat_id; a failed send is logged.
NotifyAdmin(p) ==
    /\ pc[p] = "notify"
    /\ IF admin_chat_id = NoAdmin
       THEN UNCHANGED attempts
       ELSE \E ok \in BOOLEAN :
                attempts' = [attempts EXCEPT ![p] = Append(@, [to |-> admin_chat_id, ok |-> ok])]
    /\ pc' = [pc EXCEPT ![p] = "done"]
    /\ status' = [status EXCEPT ![p] = "no_managers"]
    /\ UNCHANGED <<store_vars, config_vars, req, secret, idx, after_completed, dedup_checked, chat_vars, script_vars, view_vars>>

\* Fault: the status of the stored user is not looked at.
Skipped_nobody(user) == FALSE

\* Fault: a reviewer the Identity Store does not know is skipped as well.
Skipped_unknown(user) == user = NoUser \/ user.status # "active"

\* send_feedback_request: a reviewer is skipped when a stored user is not active.
Skipped(user) == user # NoUser /\ user.status # "active"

\* Where the fan-out loop goes after the reviewer at position i.
AfterReviewer(p, i) == IF i >= Len(req[p].hiring_manager_ids) THEN "done" ELSE "fanout_get"

\* user = await ctx.user_store.get(manager_id)
FanoutGet(p) ==
    /\ pc[p] = "fanout_get"
    /\ IF Skipped(UserStoreGet(req[p].hiring_manager_ids[idx[p]]))
       THEN /\ pc' = [pc EXCEPT ![p] = AfterReviewer(p, idx[p])]
            /\ idx' = [idx EXCEPT ![p] = @ + 1]
            /\ status' = [status EXCEPT ![p] = IF AfterReviewer(p, idx[p]) = "done" THEN "ok" ELSE @]
       ELSE /\ pc' = [pc EXCEPT ![p] = "fanout_send"]
            /\ UNCHANGED <<idx, status>>
    /\ UNCHANGED <<store_vars, config_vars, req, secret, attempts, after_completed,
                   dedup_checked, chat_vars, script_vars, view_vars>>

\* Fault: a send that raised ends the loop.
AfterSend_abort(p, ok) == IF ok THEN AfterReviewer(p, idx[p]) ELSE "done"

\* The loop position after a send that raised: the except clause logs and the loop goes on.
AfterSend(p, ok) == AfterReviewer(p, idx[p])

\* await bot.send_message(manager_id, ...) inside try/except
FanoutSend(p) ==
    /\ pc[p] = "fanout_send"
    /\ \E ok \in BOOLEAN :
        /\ attempts' = [attempts EXCEPT ![p] =
               Append(@, [to |-> req[p].hiring_manager_ids[idx[p]], ok |-> ok])]
        /\ pc' = [pc EXCEPT ![p] = AfterSend(p, ok)]
        /\ status' = [status EXCEPT ![p] = IF AfterSend(p, ok) = "done" THEN "ok" ELSE @]
    /\ idx' = [idx EXCEPT ![p] = @ + 1]
    /\ UNCHANGED <<store_vars, config_vars, req, secret, after_completed, dedup_checked, chat_vars, script_vars, view_vars>>

\* UserStore.bulk_upsert: the operator's seeding of the Identity Store.
BulkUpsert(batch) ==
    /\ users' = [id \in UserIds |->
                    IF \E i \in 1..Len(batch) : batch[i].telegram_id = id
                    THEN batch[CHOOSE i \in 1..Len(batch) :
                                   /\ batch[i].telegram_id = id
                                   /\ \A j \in (i + 1)..Len(batch) : batch[j].telegram_id # id]
                    ELSE users[id]]
    /\ users' # users
    /\ UNCHANGED <<vacancies, seen, feedback_buffer, config_vars, intake_vars, chat_vars, script_vars, view_vars>>

InitIntake ==
    /\ EmptyStores
    /\ admin_chat_id \in {NoAdmin, AdminChat}
    /\ ctx_sheets = TRUE
    /\ ctx_speech = TRUE
    /\ IdleIntake
    /\ IdleChat
    /\ NoScript

NextIntake ==
    \/ \E p \in Deliveries, payload \in Payloads, header \in Secrets : Receive(p, payload, header)
    \/ \E p \in Deliveries : CheckSeen(p)
    \/ \E p \in Deliveries : Mark(p)
    \/ \E p \in Deliveries : Upsert(p)
    \/ \E p \in Deliveries : NotifyAdmin(p)
    \/ \E p \in Deliveries : FanoutGet(p)
    \/ \E p \in Deliveries : FanoutSend(p)
    \/ \E batch \in SeedBatches : BulkUpsert(batch)

SpecIntake == InitIntake /\ [][NextIntake]_vars

(***************************************************************************)
(* Conversation events.  A message carries text, a voice note or neither;  *)
(* a callback query carries the data "<action>:<arg>".                     *)
(***************************************************************************)
TextMsg(t) == [kind |-> "text", text |-> t]
VoiceMsg(download_ok, transcript) ==
    [kind |-> "voice", download_ok |-> download_ok, transcript |-> transcript]
OtherMsg == [kind |-> "other"]
Button(action, arg) == [kind |-> "callback", action |-> action, arg |-> arg]

\* message.text is not None
HasText(ev) == ev.kind = "text"

\* message.from_user.full_name, the name of the Telegram profile
ProfileName(u) == IF u = 42 THEN Ann ELSE Ivo

RatingStates == {"overall_rating", "comms_rating", "timeliness_rating", "relevance_rating",
                 "process_quality_rating"}
FeedbackOrder == <<"overall_rating", "recruiter", "comms_rating", "timeliness_rating",
                   "relevance_rating", "process_quality_rating", "recommendations", "confirm">>
RegistrationOrder == <<"waiting_full_name", "waiting_title", "waiting_contact">>

\* The Command filter: the text is "/" followed by the command.
IsCommand(ev, name) == HasText(ev) /\ Strip(ev.text) = <<"/">> \o name

CmdStart == <<"s","t","a","r","t">>
CmdRegister == <<"r","e","g","i","s","t","e","r">>
CmdFeedback == <<"f","e","e","d","b","a","c","k">>

\* The handler the dispatcher runs: the first registered handler whose filter passes.
Route(ev, st) ==
    IF ev.kind = "callback"
    THEN (IF ev.action = "start_feedback" THEN "handle_start_feedback"
          ELSE IF ev.action = "remind_feedback" THEN "handle_remind_feedback"
          ELSE "unhandled")
    ELSE IF IsCommand(ev, CmdStart) THEN "start"
    ELSE IF IsCommand(ev, CmdRegister) THEN "register"
    ELSE IF st = "waiting_full_name" THEN "save_full_name"
    ELSE IF st = "waiting_title" THEN "save_title"
    ELSE IF st = "waiting_contact" THEN "finish_registration"
    ELSE IF IsCommand(ev, CmdFeedback) THEN "manual_feedback"
    ELSE IF st = "overall_rating" THEN "receive_overall"
    ELSE IF st = "recruiter" THEN "receive_recruiter"
    ELSE IF st = "comms_rating" THEN "receive_comms"
    ELSE IF st = "timeliness_rating" THEN "receive_time"
    ELSE IF st = "relevance_rating" THEN "receive_relevance"
    ELSE IF st = "process_quality_rating" THEN "receive_process_quality"
    ELSE IF st = "recommendations" THEN "receive_recommendations"
    ELSE IF st = "confirm" THEN "confirm"
    ELSE "unhandled"

(***************************************************************************)
(* FSMContext and replies.                                                 *)
(***************************************************************************)
\* data.get(key, default)
Get(data, key, default) == IF key \in DOMAIN data THEN data[key] ELSE default

\* state.update_data(**kv): the keys given are written, the others are kept.
UpdateData(data, kv) == kv @@ data

\* state.clear(): the state and the data are both dropped.
ClearedState == "none"
\* Fault: clear() that keeps the data.
ClearedData_kept(data) == data
ClearedData(data) == EmptyData

Say(text) == [text |-> text]
SayWith(text, args) == [text |-> text, args |-> args]

MsgHello == Say("Hello! Use /register to confirm access or wait for a feedback request.")
MsgWelcomeBack == Say("Welcome back! You are already registered.")
MsgAskName == Say("Please share your full name to finish registration.")
MsgAskTitle == Say("Your job title?")
MsgAskContact == Say("Contact details (email/phone)?")
MsgRegistered == Say("Welcome! You have been successfully registered.")
MsgCallbackAnswer == Say("callback.answer()")
MsgRemindLater == Say("callback.answer(Okay, I'll remind you later.)")
MsgNoVacancy == Say("Sorry, I cannot find this vacancy. Please contact the administrator.")
MsgNotRegistered == Say("You are not registered. Please contact the administrator (@your_admin).")
MsgAskOverall == Say("Overall performance rating (1-5)?")
MsgAskOverallManual == Say("Starting manual feedback. Overall performance rating (1-5)?")
MsgAskRecruiter(name) == SayWith("Which recruiter did you work with? Reply with the name or type 'default'.", <<name>>)
MsgAskComms == Say("How would you rate communication with the recruiter? (1-5)")
MsgAskTime == Say("Was the vacancy closed within a comfortable timeframe? (1-5)")
MsgAskRelevance == Say("How relevant were the candidates provided? (1-5)")
MsgAskProcess == Say("Rate the quality of the recruitment process (1-5)")
MsgAskRecommendations == Say("What recommendations do you have to improve the recruiter's work? Send text or voice.")
MsgNoSpeech == Say("Speech-to-text is not configured. Please send text feedback.")
MsgTranscribing == Say("Transcribing your voice message...")
MsgNoTranscript == Say("Sorry, I couldn't transcribe that. Please send text feedback.")
MsgTranscript(text) == SayWith("Transcript:", <<text>>)
MsgNeedRecommendations == Say("Please send text or a voice message with your recommendations.")
MsgSummary(data) == SayWith("Save this feedback? Reply 'yes' to confirm or 'no' to cancel.", <<data>>)
MsgYesOrNo == Say("Please reply 'yes' to save or 'no' to cancel.")
MsgCanceled == Say("Feedback canceled.")
MsgSheetFailed == Say("Could not save to Google Sheets. The admin has been notified.")
MsgThanks == Say("Thank you for your feedback! It is very important to our team.")

MinRating == 1
MaxRating == 5
MsgRange(min_value, max_value) ==
    SayWith("Please provide a number between {min_value} and {max_value}.", <<min_value, max_value>>)

\* The sends of one handler: msgs in order, of which the one at position failing raises
\* (failing > Len(msgs): none does).  A send that raises ends the handler.
Sent(u, msgs, failing) ==
    [i \in 1..(IF failing <= Len(msgs) THEN failing ELSE Len(msgs)) |->
        [to |-> u, msg |-> msgs[i], ok |-> i < failing]]
Ended(msgs, failing) == IF failing <= Len(msgs) THEN "raised" ELSE "ok"

\* What a handler leaves behind, starting from nothing changed and nothing sent.
Unchanged(u) ==
    [state |-> fsm_state[u], data |-> fsm_data[u], users |-> users, vacancies |-> vacancies,
     buffer |-> feedback_buffer, outbox |-> <<>>, result |-> "ok", sink |-> NoSink]

Replying(out, u, msgs, failing) ==
    [out EXCEPT !.outbox = Sent(u, msgs, failing), !.result = Ended(msgs, failing)]

\* An exception before anything was written or sent (None.strip()).
Raising(u) == [Unchanged(u) EXCEPT !.result = "raised"]

\* How many records the Fallback Buffer holds before the run is ended.
MaxBuffer == 1
Running == Len(feedback_buffer) < MaxBuffer

\* The handler run for ev of u ends and leaves out behind.
Handled(u, ev, out) ==
    /\ Running
    /\ update' = [from |-> u, ev |-> ev]
    /\ fsm_state' = [fsm_state EXCEPT ![u] = out.state]
    /\ fsm_data' = [fsm_data EXCEPT ![u] = out.data]
    /\ users' = out.users
    /\ vacancies' = out.vacancies
    /\ feedback_buffer' = out.buffer
    /\ outbox' = out.outbox
    /\ result' = out.result
    /\ sink_call' = out.sink
    /\ step' = IF script = <<>> THEN step ELSE step + 1
    /\ UNCHANGED <<seen, config_vars, intake_vars, script, view_vars>>

\* A handler that runs from its dispatch to its end with no other handler in between.
Apply(u, ev, out) == Handled(u, ev, out) /\ UNCHANGED tasks

(***************************************************************************)
(* Registration handlers.                                                  *)
(***************************************************************************)
StartOut(u, ev, failing) == Replying(Unchanged(u), u, <<MsgHello>>, failing)

RegisterOut(u, ev, failing) ==
    IF UserStoreGet(u) # NoUser
    THEN Replying(Unchanged(u), u, <<MsgWelcomeBack>>, failing)
    ELSE Replying([Unchanged(u) EXCEPT !.state = "waiting_full_name"], u, <<MsgAskName>>, failing)

SaveFullNameOut(u, ev, failing) ==
    IF ~HasText(ev) THEN Raising(u)
    ELSE Replying([Unchanged(u) EXCEPT
                      !.data = UpdateData(@, [full_name |-> Strip(ev.text)]),
                      !.state = "waiting_title"], u, <<MsgAskTitle>>, failing)

SaveTitleOut(u, ev, failing) ==
    IF ~HasText(ev) THEN Raising(u)
    ELSE Replying([Unchanged(u) EXCEPT
                      !.data = UpdateData(@, [title |-> Strip(ev.text)]),
                      !.state = "waiting_contact"], u, <<MsgAskContact>>, failing)

FinishRegistrationOut(u, ev, failing) ==
    IF ~HasText(ev) THEN Raising(u)
    ELSE Replying([Unchanged(u) EXCEPT
                      !.users = UserStoreUpsert(@,
                          User(u, Get(fsm_data[u], "full_name", ProfileName(u)),
                               Get(fsm_data[u], "title", <<>>), Strip(ev.text))),
                      !.state = ClearedState,
                      !.data = ClearedData(@)], u, <<MsgRegistered>>, failing)

(***************************************************************************)
(* Entering the feedback flow.                                             *)
(***************************************************************************)
\* The four keys both entry paths write with state.update_data.
Seed(vacancy, user) ==
    [vacancy_id |-> vacancy.vacancy_id, vacancy_title |-> vacancy.vacancy_title,
     recruiter_name |-> vacancy.recruiter_name, hiring_manager_full_name |-> user.full_name]

\* handle_start_feedback: callback.answer(), the vacancy, the user, then the seeding.
HandleStartFeedbackOut(u, ev, failing) ==
    LET vacancy == VacancyStoreGet(ev.arg)
        user == UserStoreGet(u)
    IN  IF failing = 1 THEN Replying(Unchanged(u), u, <<MsgCallbackAnswer>>, failing)
        ELSE IF vacancy = NoVacancy
        THEN Replying(Unchanged(u), u, <<MsgCallbackAnswer, MsgNoVacancy>>, failing)
        ELSE IF user = NoUser
        THEN Replying(Unchanged(u), u, <<MsgCallbackAnswer, MsgNotRegistered>>, failing)
        ELSE Replying([Unchanged(u) EXCEPT
                          !.data = UpdateData(@, Seed(vacancy, user)),
                          !.state = "overall_rating"],
                      u, <<MsgCallbackAnswer, MsgAskOverall>>, failing)

HandleRemindFeedbackOut(u, ev, failing) ==
    Replying(Unchanged(u), u, <<MsgRemindLater>>, failing)

ManualVacancy(u) == VacancyAssignment("manual", "Manual trigger", Unknown, <<u>>)

\* Fault: manual_feedback that stores the assignment before it looks the user up.
ManualFeedbackOut_eager(u, ev, failing) ==
    LET vacancy == ManualVacancy(u)
        user == UserStoreGet(u)
        stored == [Unchanged(u) EXCEPT !.vacancies = VacancyStoreUpsert(@, vacancy)]
    IN  IF user = NoUser
        THEN Replying(stored, u, <<MsgNotRegistered>>, failing)
        ELSE Replying([stored EXCEPT
                          !.data = UpdateData(@, Seed(vacancy, user)),
                          !.state = "overall_rating"],
                      u, <<MsgAskOverallManual>>, failing)

\* manual_feedback: the assignment is stored only after the user was found.
ManualFeedbackOut(u, ev, failing) ==
    LET vacancy == ManualVacancy(u)
        user == UserStoreGet(u)
    IN  IF user = NoUser
        THEN Replying(Unchanged(u), u, <<MsgNotRegistered>>, failing)
        ELSE Replying([Unchanged(u) EXCEPT
                          !.vacancies = VacancyStoreUpsert(@, vacancy),
                          !.data = UpdateData(@, Seed(vacancy, user)),
                          !.state = "overall_rating"],
                      u, <<MsgAskOverallManual>>, failing)

(***************************************************************************)
(* The feedback steps.                                                     *)
(***************************************************************************)
\* Fault: the lower end of the range is not checked.
ValidateRating_unbounded(ev, min_value, max_value) ==
    IF HasText(ev) /\ IntParses(ev.text) /\ IntValue(ev.text) <= max_value
    THEN [valid |-> TRUE, value |-> IntValue(ev.text)]
    ELSE [valid |-> FALSE, value |-> 0]

\* _validate_rating: int(message.text.strip()) within min_value..max_value; any
\* exception (no text, not a number) and any number out of range is rejected.
ValidateRating(ev, min_value, max_value) ==
    IF HasText(ev) /\ IntParses(ev.text)
       /\ min_value <= IntValue(ev.text) /\ IntValue(ev.text) <= max_value
    THEN [valid |-> TRUE, value |-> IntValue(ev.text)]
    ELSE [valid |-> FALSE, value |-> 0]

\* A rating handler: store under field, move to next, send prompt.
RatingOut(u, ev, failing, field, next, prompt) ==
    LET rating == ValidateRating(ev, MinRating, MaxRating)
    IN  IF ~rating.valid
        THEN Replying(Unchanged(u), u, <<MsgRange(MinRating, MaxRating)>>, failing)
        ELSE Replying([Unchanged(u) EXCEPT
                          !.data = UpdateData(@, (field :> rating.value)),
                          !.state = next], u, <<prompt>>, failing)

ReceiveOverallOut(u, ev, failing) ==
    RatingOut(u, ev, failing, "overall_rating", "recruiter",
              MsgAskRecruiter(Get(fsm_data[u], "recruiter_name", <<>>)))
\* Fault: receive_comms that files its rating under the next field.
ReceiveCommsOut_misfiled(u, ev, failing) ==
    RatingOut(u, ev, failing, "timeliness_rating", "timeliness_rating", MsgAskTime)
ReceiveCommsOut(u, ev, failing) ==
    RatingOut(u, ev, failing, "comms_rating", "timeliness_rating", MsgAskTime)
ReceiveTimeOut(u, ev, failing) ==
    RatingOut(u, ev, failing, "timeliness_rating", "relevance_rating", MsgAskRelevance)
ReceiveRelevanceOut(u, ev, failing) ==
    RatingOut(u, ev, failing, "relevance_rating", "process_quality_rating", MsgAskProcess)
ReceiveProcessQualityOut(u, ev, failing) ==
    RatingOut(u, ev, failing, "process_quality_rating", "recommendations", MsgAskRecommendations)

TextDefault == <<"d","e","f","a","u","l","t">>

\* Fault: the comparison with "default" without lower().
RecruiterName_cased(text, data) ==
    IF Strip(text) = TextDefault
    THEN Get(data, "recruiter_name", Unknown)
    ELSE Strip(text)

\* The name receive_recruiter stores for the text typed.
RecruiterName(text, data) ==
    IF Lower(Strip(text)) = TextDefault
    THEN Get(data, "recruiter_name", Unknown)
    ELSE Strip(text)

ReceiveRecruiterOut(u, ev, failing) ==
    IF ~HasText(ev) THEN Raising(u)
    ELSE Replying([Unchanged(u) EXCEPT
                      !.data = UpdateData(@, [recruiter_name |-> RecruiterName(ev.text, fsm_data[u])]),
                      !.state = "comms_rating"], u, <<MsgAskComms>>, failing)

\* The text receive_recommendations keeps (<<>>: none).
RecommendationText(ev) ==
    IF ev.kind = "voice" THEN ev.transcript
    ELSE IF HasText(ev) /\ ev.text # <<>> THEN Strip(ev.text)
    ELSE <<>>

ReceiveRecommendationsOut(u, ev, failing) ==
    LET text == RecommendationText(ev)
        before == IF ev.kind = "voice" THEN <<MsgTranscribing, MsgTranscript(text)>> ELSE <<>>
        stored == [Unchanged(u) EXCEPT
                      !.data = UpdateData(@, [recommendations |-> text, feedback_comment |-> text]),
                      !.state = "confirm"]
    IN  IF ev.kind = "voice" /\ ~ctx_speech
        THEN Replying(Unchanged(u), u, <<MsgNoSpeech>>, failing)
        ELSE IF ev.kind = "voice" /\ failing = 1
        THEN Replying(Unchanged(u), u, <<MsgTranscribing>>, failing)
        ELSE IF ev.kind = "voice" /\ ~ev.download_ok
        THEN [Replying(Unchanged(u), u, <<MsgTranscribing>>, failing) EXCEPT !.result = "raised"]
        ELSE IF ev.kind = "voice" /\ text = <<>>
        THEN Replying(Unchanged(u), u, <<MsgTranscribing, MsgNoTranscript>>, failing)
        ELSE IF text = <<>>
        THEN Replying(Unchanged(u), u, <<MsgNeedRecommendations>>, failing)
        ELSE IF failing <= Len(before)
        THEN Replying(Unchanged(u), u, before, failing)
        ELSE Replying(stored, u, before \o <<MsgSummary(stored.data)>>, failing)

(***************************************************************************)
(* The sheet write: SheetWebhookClient.append_feedback under tenacity's    *)
(* retry(stop_after_attempt(3)).  An attempt answers an HTTP status, or 0  *)
(* when httpx.post raised.                                                  *)
(***************************************************************************)
StopAfterAttempt == 3
TransportError == 0
AttemptCodes == {200, 500, TransportError}

\* One attempt returns normally: no exception from httpx.post, status below 400.
AttemptOk(code) == code # TransportError /\ code < 400

\* The attempts one call makes when the sink answers codes[1], codes[2], ...
RECURSIVE AttemptsMade(_, _)
AttemptsMade(codes, n) ==
    IF n >= StopAfterAttempt \/ AttemptOk(codes[n]) THEN SubSeq(codes, 1, n)
    ELSE AttemptsMade(codes, n + 1)

\* The call returns normally; otherwise RetryError reaches the caller.
AppendFeedbackOk(made) == AttemptOk(made[Len(made)])

WaitMultiplier == 1
WaitMin == 1
WaitMax == 10

\* Fault: the same wait after every failed attempt.
WaitExponential_fixed(attempt_number) == WaitMin

\* wait_exponential(multiplier=1, min=1, max=10): multiplier * 2^(attempt_number - 1),
\* kept within min..max, slept after the failed attempt of that number.
WaitExponential(attempt_number) ==
    LET wait == WaitMultiplier * 2^(attempt_number - 1)
    IN  IF wait < WaitMin THEN WaitMin ELSE IF wait > WaitMax THEN WaitMax ELSE wait

\* The sleeps of one call: one after every attempt but the last.
WaitsMade(made) == [n \in 1..(Len(made) - 1) |-> WaitExponential(n)]

SinkAnswers == {codes \in [1..StopAfterAttempt -> AttemptCodes] :
                   AttemptsMade(codes, 1) = codes
                   \/ \A i \in (Len(AttemptsMade(codes, 1)) + 1)..StopAfterAttempt : codes[i] = 200}

\* FeedbackRecord(...) as confirm builds it from the data (submitted_at is left out).
FeedbackRecord(data, u) ==
    [vacancy_id |-> Get(data, "vacancy_id", ""),
     vacancy_title |-> Get(data, "vacancy_title", ""),
     recruiter_name |-> Get(data, "recruiter_name", <<>>),
     hiring_manager_full_name |-> Get(data, "hiring_manager_full_name", ProfileName(u)),
     telegram_user_id |-> u,
     feedback_comment |-> Get(data, "feedback_comment", <<>>),
     overall_rating |-> Get(data, "overall_rating", 0),
     comms_rating |-> Get(data, "comms_rating", 0),
     timeliness_rating |-> Get(data, "timeliness_rating", 0),
     relevance_rating |-> Get(data, "relevance_rating", 0),
     process_quality_rating |-> Get(data, "process_quality_rating", 0),
     recommendations |-> Get(data, "recommendations", <<>>)]

TextYes == <<"y","e","s">>
TextNo == <<"n","o">>

\* decision = (message.text or "").strip().lower()
Decision(ev) == IF HasText(ev) THEN Lower(Strip(ev.text)) ELSE <<>>

\* The write path of confirm after "yes".
ConfirmYesOut(u, codes, failing) ==
    LET record == FeedbackRecord(fsm_data[u], u)
        made == AttemptsMade(codes, 1)
        called == [called |-> TRUE, record |-> record, attempts |-> made, waits |-> WaitsMade(made)]
        cleared == [Unchanged(u) EXCEPT !.state = ClearedState, !.data = ClearedData(@)]
    IN  IF ~ctx_sheets
        THEN Replying([cleared EXCEPT !.buffer = FeedbackBufferAdd(@, record)],
                      u, <<MsgThanks>>, failing)
        ELSE IF AppendFeedbackOk(made)
        THEN Replying([cleared EXCEPT !.sink = called], u, <<MsgThanks>>, failing)
        ELSE IF failing = 1
        THEN Replying([Unchanged(u) EXCEPT !.sink = called], u, <<MsgSheetFailed>>, failing)
        ELSE Replying([cleared EXCEPT !.sink = called, !.buffer = FeedbackBufferAdd(@, record)],
                      u, <<MsgSheetFailed, MsgThanks>>, failing)

ConfirmOut(u, ev, codes, failing) ==
    IF Decision(ev) \notin {TextYes, TextNo}
    THEN Replying(Unchanged(u), u, <<MsgYesOrNo>>, failing)
    ELSE IF Decision(ev) = TextNo
    THEN Replying([Unchanged(u) EXCEPT !.state = ClearedState, !.data = ClearedData(@)],
                  u, <<MsgCanceled>>, failing)
    ELSE ConfirmYesOut(u, codes, failing)

(***************************************************************************)
(* One action per handler.                                                 *)
(***************************************************************************)
Start(u, ev) ==
    /\ Route(ev, fsm_state[u]) = "start"
    /\ \E failing \in 1..2 : Apply(u, ev, StartOut(u, ev, failing))

Register(u, ev) ==
    /\ Route(ev, fsm_state[u]) = "register"
    /\ \E failing \in 1..2 : Apply(u, ev, RegisterOut(u, ev, failing))

SaveFullName(u, ev) ==
    /\ Route(ev, fsm_state[u]) = "save_full_name"
    /\ \E failing \in 1..2 : Apply(u, ev, SaveFullNameOut(u, ev, failing))

SaveTitle(u, ev) ==
    /\ Route(ev, fsm_state[u]) = "save_title"
    /\ \E failing \in 1..2 : Apply(u, ev, SaveTitleOut(u, ev, failing))

FinishRegistration(u, ev) ==
    /\ Route(ev, fsm_state[u]) = "finish_registration"
    /\ \E failing \in 1..2 : Apply(u, ev, FinishRegistrationOut(u, ev, failing))

HandleStartFeedback(u, ev) ==
    /\ Route(ev, fsm_state[u]) = "handle_start_feedback"
    /\ \E failing \in 1..3 : Apply(u, ev, HandleStartFeedbackOut(u, ev, failing))

HandleRemindFeedback(u, ev) ==
    /\ Route(ev, fsm_state[u]) = "handle_remind_feedback"
    /\ \E failing \in 1..2 : Apply(u, ev, HandleRemindFeedbackOut(u, ev, failing))

ManualFeedback(u, ev) ==
    /\ Route(ev, fsm_state[u]) = "manual_feedback"
    /\ \E failing \in 1..2 : Apply(u, ev, ManualFeedbackOut(u, ev, failing))

ReceiveOverall(u, ev) ==
    /\ Route(ev, fsm_state[u]) = "receive_overall"
    /\ \E failing \in 1..2 : Apply(u, ev, ReceiveOverallOut(u, ev, failing))

ReceiveRecruiter(u, ev) ==
    /\ Route(ev, fsm_state[u]) = "receive_recruiter"
    /\ \E failing \in 1..2 : Apply(u, ev, ReceiveRecruiterOut(u, ev, failing))

ReceiveComms(u, ev) ==
    /\ Route(ev, fsm_state[u]) = "receive_comms"
    /\ \E failing \in 1..2 : Apply(u, ev, ReceiveCommsOut(u, ev, failing))

ReceiveTime(u, ev) ==
    /\ Route(ev, fsm_state[u]) = "receive_time"
    /\ \E failing \in 1..2 : Apply(u, ev, ReceiveTimeOut(u, ev, failing))

ReceiveRelevance(u, ev) ==
    /\ Route(ev, fsm_state[u]) = "receive_relevance"
    /\ \E failing \in 1..2 : Apply(u, ev, ReceiveRelevanceOut(u, ev, failing))

ReceiveProcessQuality(u, ev) ==
    /\ Route(ev, fsm_state[u]) = "receive_process_quality"
    /\ \E failing \in 1..2 : Apply(u, ev, ReceiveProcessQualityOut(u, ev, failing))

ReceiveRecommendations(u, ev) ==
    /\ Route(ev, fsm_state[u]) = "receive_recommendations"
    /\ \E failing \in 1..4 : Apply(u, ev, ReceiveRecommendationsOut(u, ev, failing))

Confirm(u, ev) ==
    /\ Route(ev, fsm_state[u]) = "confirm"
    /\ \E failing \in 1..3, codes \in SinkAnswers :
           /\ (Decision(ev) # TextYes \/ ~ctx_sheets) => codes = [i \in 1..StopAfterAttempt |-> 200]
           /\ Apply(u, ev, ConfirmOut(u, ev, codes, failing))

\* No handler's filter passes: the update is dropped.
Unhandled(u, ev) ==
    /\ Route(ev, fsm_state[u]) = "unhandled"
    /\ Apply(u, ev, [Unchanged(u) EXCEPT !.result = "unhandled"])

(***************************************************************************)
(* The updates the reviewers send.                                         *)
(***************************************************************************)
Bob == <<"B","o","b">>
Great == <<"G","r","e","a","t"," ","p","r","o","c","e","s","s">>
Heard == <<"f","i","n","e">>

Voices == {VoiceMsg(TRUE, Heard), VoiceMsg(TRUE, <<>>), VoiceMsg(FALSE, <<>>)}

InvalidRatings == {TextMsg(<<"0">>), TextMsg(<<"6">>), TextMsg(<<"-","3">>),
                   TextMsg(<<"3",".","5">>), TextMsg(<<"a","b","c">>), TextMsg(<<" ">>)}

\* The texts a reviewer types in a state (besides commands, buttons and non-text messages).
Typed(st) ==
    IF st \in RatingStates THEN {TextMsg(<<"5">>)} \cup InvalidRatings
    ELSE IF st = "recruiter"
    THEN {TextMsg(TextDefault), TextMsg(<<" ","D","e","f","a","u","l","T"," ">>),
          TextMsg(<<" ">> \o Bob \o <<" ">>)}
    ELSE IF st = "recommendations"
    THEN {TextMsg(<<" ">> \o Great \o <<" ">>), TextMsg(<<" ">>)} \cup Voices
    ELSE IF st = "confirm"
    THEN {TextMsg(TextYes), TextMsg(<<" ","Y","e","s"," ">>), TextMsg(TextNo),
          TextMsg(<<"N","O"," ">>), TextMsg(<<"y","e","p">>)}
    ELSE IF st \in {"waiting_full_name", "waiting_title", "waiting_contact"}
    THEN {TextMsg(<<" ">> \o Ann \o <<" ">>)}
    ELSE {TextMsg(<<"h","i">>)}

\* 42 goes through registration and feedback; 7 never registers.  /feedback, the
\* start_feedback button of a stored vacancy and a message without text arrive in every
\* state; the updates that never change a session arrive in ChatterStates only.
Senders == {42, 7}
ChatterStates == {"none", "waiting_title", "overall_rating", "recruiter", "confirm"}
Chatter == {TextMsg(<<"/">> \o CmdStart), TextMsg(<<"/">> \o CmdRegister),
            Button("start_feedback", "v9"), Button("remind_feedback", "v1")}
Inputs(u, st) ==
    IF u = 42
    THEN Typed(st) \cup {TextMsg(<<"/">> \o CmdFeedback), Button("start_feedback", "v1"), OtherMsg}
         \cup (IF st \in ChatterStates THEN Chatter ELSE {})
         \cup (IF st = "none" THEN {TextMsg(<<"/">> \o CmdRegister)} ELSE {})
    ELSE {TextMsg(<<"/">> \o CmdFeedback), Button("start_feedback", "v1")}

AllStates == {"none"} \cup {RegistrationOrder[i] : i \in 1..3} \cup {FeedbackOrder[i] : i \in 1..8}
AllInputs == UNION {Inputs(u, st) : u \in Senders, st \in AllStates}

\* Delivery 1 of the first payload has returned "ok": v1 is stored, e1 is marked.
FirstPayload == CHOOSE payload \in Payloads : payload.event_id = "e1" /\ payload.vacancy_id = "v1"

AfterFirstDelivery ==
    /\ vacancies = [v \in VacancyIds |->
           IF v = "v1"
           THEN VacancyAssignment("v1", FirstPayload.vacancy_title, FirstPayload.recruiter_name,
                                  FirstPayload.hiring_manager_ids)
           ELSE NoVacancy]
    /\ seen = {"e1"}
    /\ feedback_buffer = <<>>
    /\ recent = NoListing
    /\ pc = [p \in Deliveries |-> IF p = 1 THEN "done" ELSE "idle"]
    /\ req = [p \in Deliveries |-> IF p = 1 THEN FirstPayload ELSE NoRequest]
    /\ secret = [p \in Deliveries |-> IF p = 1 THEN GoodSecret ELSE "absent"]
    /\ idx = [p \in Deliveries |-> IF p = 1 THEN 4 ELSE 0]
    /\ attempts = [p \in Deliveries |->
           IF p = 1 THEN <<[to |-> 42, ok |-> TRUE], [to |-> 7, ok |-> TRUE], [to |-> 9, ok |-> TRUE]>>
           ELSE <<>>]
    /\ status = [p \in Deliveries |-> IF p = 1 THEN "ok" ELSE "none"]
    /\ after_completed = [p \in Deliveries |-> FALSE]
    /\ dedup_checked = [p \in Deliveries |-> p = 1]

InitFlow ==
    /\ AfterFirstDelivery
    /\ users = [id \in UserIds |-> NoUser]
    /\ admin_chat_id = NoAdmin
    /\ ctx_sheets \in BOOLEAN
    /\ ctx_speech = ctx_sheets
    /\ IdleChat
    /\ NoScript

\* Inputs and Route tabulated over the updates and states of the model.
InputsOf == [u \in Senders, st \in AllStates |-> Inputs(u, st)]
RouteOf == [ev \in AllInputs, st \in AllStates |-> Route(ev, st)]

\* An update a sender can send in the state its session is in, and its handler.
Arrives(u, ev, handler) ==
    /\ ev \in InputsOf[u, fsm_state[u]]
    /\ RouteOf[ev, fsm_state[u]] = handler

NextFlow ==
    \/ \E u \in Senders, ev \in AllInputs : Arrives(u, ev, "start") /\ Start(u, ev)
    \/ \E u \in Senders, ev \in AllInputs : Arrives(u, ev, "register") /\ Register(u, ev)
    \/ \E u \in Senders, ev \in AllInputs : Arrives(u, ev, "save_full_name") /\ SaveFullName(u, ev)
    \/ \E u \in Senders, ev \in AllInputs : Arrives(u, ev, "save_title") /\ SaveTitle(u, ev)
    \/ \E u \in Senders, ev \in AllInputs : Arrives(u, ev, "finish_registration") /\ FinishRegistration(u, ev)
    \/ \E u \in Senders, ev \in AllInputs : Arrives(u, ev, "handle_start_feedback") /\ HandleStartFeedback(u, ev)
    \/ \E u \in Senders, ev \in AllInputs : Arrives(u, ev, "handle_remind_feedback") /\ HandleRemindFeedback(u, ev)
    \/ \E u \in Senders, ev \in AllInputs : Arrives(u, ev, "manual_feedback") /\ ManualFeedback(u, ev)
    \/ \E u \in Senders, ev \in AllInputs : Arrives(u, ev, "receive_overall") /\ ReceiveOverall(u, ev)
    \/ \E u \in Senders, ev \in AllInputs : Arrives(u, ev, "receive_recruiter") /\ ReceiveRecruiter(u, ev)
    \/ \E u \in Senders, ev \in AllInputs : Arrives(u, ev, "receive_comms") /\ ReceiveComms(u, ev)
    \/ \E u \in Senders, ev \in AllInputs : Arrives(u, ev, "receive_time") /\ ReceiveTime(u, ev)
    \/ \E u \in Senders, ev \in AllInputs : Arrives(u, ev, "receive_relevance") /\ ReceiveRelevance(u, ev)
    \/ \E u \in Senders, ev \in AllInputs : Arrives(u, ev, "receive_process_quality") /\ ReceiveProcessQuality(u, ev)
    \/ \E u \in Senders, ev \in AllInputs : Arrives(u, ev, "receive_recommendations") /\ ReceiveRecommendations(u, ev)
    \/ \E u \in Senders, ev \in AllInputs : Arrives(u, ev, "confirm") /\ Confirm(u, ev)
    \/ \E u \in Senders, ev \in AllInputs : Arrives(u, ev, "unhandled") /\ Unhandled(u, ev)

SpecFlow == InitFlow /\ [][NextFlow]_vars

(***************************************************************************)
(* One reviewer, registered, answers an invitation for the stored vacancy  *)
(* v1: the button, one input per step, then the decision.                  *)
(***************************************************************************)
Reviewers == {42}

RatingTexts == {TextMsg(<<"1">>), TextMsg(<<" ","5"," ">>)}
RecruiterTexts == {TextMsg(TextDefault), TextMsg(<<" ","D","e","f","a","u","l","T"," ">>),
                   TextMsg(<<" ">> \o Bob \o <<" ">>)}
RecommendationInputs == {TextMsg(Great), TextMsg(<<" ">> \o Great \o <<" ">>), VoiceMsg(TRUE, Heard)}
YesTexts == {TextMsg(TextYes), TextMsg(<<" ","Y","e","s"," ">>)}

Scripts ==
    { <<Button("start_feedback", "v1"), overall, recruiter, comms, time, relevance, process,
        recommendations, decision>> :
          overall \in RatingTexts, recruiter \in RecruiterTexts, comms \in RatingTexts,
          time \in RatingTexts, relevance \in RatingTexts, process \in RatingTexts,
          recommendations \in RecommendationInputs, decision \in YesTexts }

ScriptInputs == {Button("start_feedback", "v1")} \cup RatingTexts \cup RecruiterTexts
                \cup RecommendationInputs \cup YesTexts

InitScenario ==
    /\ AfterFirstDelivery
    /\ users = [id \in UserIds |-> IF id \in Reviewers THEN User(id, Ann, <<>>, <<>>) ELSE NoUser]
    /\ admin_chat_id = NoAdmin
    /\ ctx_sheets \in BOOLEAN
    /\ ctx_speech = TRUE
    /\ IdleChat
    /\ script \in Scripts
    /\ step = 1

\* The next input of the script.
Scripted(ev) == step <= Len(script) /\ ev = script[step]

NextScenario ==
    \/ \E u \in Reviewers, ev \in ScriptInputs : Scripted(ev) /\ HandleStartFeedback(u, ev)
    \/ \E u \in Reviewers, ev \in ScriptInputs : Scripted(ev) /\ ReceiveOverall(u, ev)
    \/ \E u \in Reviewers, ev \in ScriptInputs : Scripted(ev) /\ ReceiveRecruiter(u, ev)
    \/ \E u \in Reviewers, ev \in ScriptInputs : Scripted(ev) /\ ReceiveComms(u, ev)
    \/ \E u \in Reviewers, ev \in ScriptInputs : Scripted(ev) /\ ReceiveTime(u, ev)
    \/ \E u \in Reviewers, ev \in ScriptInputs : Scripted(ev) /\ ReceiveRelevance(u, ev)
    \/ \E u \in Reviewers, ev \in ScriptInputs : Scripted(ev) /\ ReceiveProcessQuality(u, ev)
    \/ \E u \in Reviewers, ev \in ScriptInputs : Scripted(ev) /\ ReceiveRecommendations(u, ev)
    \/ \E u \in Reviewers, ev \in ScriptInputs : Scripted(ev) /\ Confirm(u, ev)

SpecScenario == InitScenario /\ [][NextScenario]_vars

(***************************************************************************)
(* Handlers on the event loop.  telegram_webhook runs dp.feed_update for   *)
(* every request as it arrives, and the dispatcher is built without an     *)
(* events_isolation, so a handler that is suspended in a network call      *)
(* leaves the loop to the handlers of later updates, of every user.        *)
(* append_feedback is a plain function: while a handler is inside it, in   *)
(* httpx.post or in the sleep between two attempts, the loop runs nothing  *)
(* else.  One reviewer is at the Recommendations step; another user and    *)
(* the vacancy system send requests of their own.                          *)
(***************************************************************************)
\* No handler is inside the call of append_feedback.
LoopFree == \A t \in TaskIds : tasks[t].pc \notin {"append", "sleep", "returned"}

Suspended(t, u, ev, pc_) ==
    [tasks EXCEPT ![t] = [pc |-> pc_, from |-> u, ev |-> ev, state |-> fsm_state[u],
                          made |-> <<>>, slept |-> <<>>]]

\* receive_recommendations for a voice message, up to the download and the transcription
\* it waits for: the first reply is sent, the session is not yet written.
VoiceBegin(t, u, ev) ==
    /\ tasks[t].pc = "idle"
    /\ Route(ev, fsm_state[u]) = "receive_recommendations"
    /\ ev.kind = "voice" /\ ctx_speech
    /\ \E failing \in 1..2 :
           IF failing = 1
           THEN Apply(u, ev, ReceiveRecommendationsOut(u, ev, failing))
           ELSE /\ Running
                /\ tasks' = Suspended(t, u, ev, "transcribing")
                /\ outbox' = Sent(u, <<MsgTranscribing>>, failing)
                /\ update' = [from |-> u, ev |-> ev]
                /\ result' = "suspended"
                /\ sink_call' = NoSink
                /\ UNCHANGED <<store_vars, config_vars, intake_vars, fsm_state, fsm_data, script_vars, view_vars>>

\* The rest of it, with the session as it is when the handler goes on.
VoiceEnd(t) ==
    /\ tasks[t].pc = "transcribing"
    /\ \E failing \in 2..4 :
           Handled(tasks[t].from, tasks[t].ev,
                   ReceiveRecommendationsOut(tasks[t].from, tasks[t].ev, failing))
    /\ tasks' = [tasks EXCEPT ![t] = IdleTask]

\* confirm after "yes" with a sheets client, up to the call of append_feedback.
ConfirmBegin(t, u, ev) ==
    /\ tasks[t].pc = "idle"
    /\ Route(ev, fsm_state[u]) = "confirm"
    /\ Decision(ev) = TextYes /\ ctx_sheets
    /\ Running
    /\ tasks' = Suspended(t, u, ev, "append")
    /\ UNCHANGED <<store_vars, config_vars, intake_vars, fsm_state, fsm_data, outbox, result,
                   sink_call, update, script_vars, view_vars>>

\* One httpx.post of the call and what tenacity does with its outcome.
Attempt(t, code) ==
    /\ tasks[t].pc = "append"
    /\ LET made == Append(tasks[t].made, code)
       IN  tasks' = [tasks EXCEPT ![t].made = made,
                                  ![t].pc = IF AttemptOk(code) \/ Len(made) >= StopAfterAttempt
                                            THEN "returned" ELSE "sleep"]
    /\ UNCHANGED <<store_vars, config_vars, intake_vars, fsm_state, fsm_data, outbox, result,
                   sink_call, update, script_vars, view_vars>>

\* time.sleep between two attempts.
Sleep(t) ==
    /\ tasks[t].pc = "sleep"
    /\ tasks' = [tasks EXCEPT ![t].slept = Append(@, WaitExponential(Len(tasks[t].made))),
                              ![t].pc = "append"]
    /\ UNCHANGED <<store_vars, config_vars, intake_vars, fsm_state, fsm_data, outbox, result,
                   sink_call, update, script_vars, view_vars>>

\* The call has returned or raised RetryError: the rest of confirm.
ConfirmEnd(t) ==
    /\ tasks[t].pc = "returned"
    /\ \E failing \in 1..3 :
           Handled(tasks[t].from, tasks[t].ev, ConfirmYesOut(tasks[t].from, tasks[t].made, failing))
    /\ tasks' = [tasks EXCEPT ![t] = IdleTask]

Recommended == TextMsg(<<" ">> \o Great \o <<" ">>)
Others == {7}
Greetings == {TextMsg(<<"/">> \o CmdStart)}
Declined == {TextMsg(TextNo)}
SecondPayload == CHOOSE payload \in Payloads : payload.event_id = "e2"

\* The reviewer has answered every step before Recommendations.
Answered(vacancy, user) ==
    [overall_rating |-> 5, comms_rating |-> 5, timeliness_rating |-> 5, relevance_rating |-> 5,
     process_quality_rating |-> 5] @@ Seed(vacancy, user)

InitTasks ==
    /\ AfterFirstDelivery
    /\ users = [id \in UserIds |-> IF id \in Reviewers THEN User(id, Ann, Ann, Ann) ELSE NoUser]
    /\ admin_chat_id = AdminChat
    /\ ctx_sheets = TRUE
    /\ ctx_speech = TRUE
    /\ fsm_state = [u \in UserIds |-> IF u \in Reviewers THEN "recommendations" ELSE "none"]
    /\ fsm_data = [u \in UserIds |->
                      IF u \in Reviewers THEN Answered(vacancies["v1"], users[u]) ELSE EmptyData]
    /\ outbox = <<>>
    /\ result = "none"
    /\ sink_call = NoSink
    /\ update = NoUpdate
    /\ tasks = [t \in TaskIds |-> IdleTask]
    /\ NoScript

NextTasks ==
    \/ \E t \in TaskIds, u \in Reviewers, ev \in Voices : LoopFree /\ VoiceBegin(t, u, ev)
    \/ \E t \in TaskIds : LoopFree /\ VoiceEnd(t)
    \/ \E u \in Reviewers : LoopFree /\ ReceiveRecommendations(u, Recommended)
    \/ \E t \in TaskIds, u \in Reviewers, ev \in YesTexts : LoopFree /\ ConfirmBegin(t, u, ev)
    \/ \E t \in TaskIds, code \in AttemptCodes : Attempt(t, code)
    \/ \E t \in TaskIds : Sleep(t)
    \/ \E t \in TaskIds : ConfirmEnd(t)
    \/ \E u \in Reviewers, ev \in Declined : LoopFree /\ Confirm(u, ev)
    \/ \E u \in Others, ev \in Greetings : LoopFree /\ Start(u, ev)
    \/ \E p \in Deliveries : LoopFree /\ Receive(p, SecondPayload, GoodSecret)
    \/ \E p \in Deliveries : LoopFree /\ CheckSeen(p)
    \/ \E p \in Deliveries : LoopFree /\ Mark(p)
    \/ \E p \in Deliveries : LoopFree /\ Upsert(p)
    \/ \E p \in Deliveries : LoopFree /\ NotifyAdmin(p)

SpecTasks == InitTasks /\ [][NextTasks]_vars

(***************************************************************************)
(* The Fallback Buffer on its own: records are added and the most recent   *)
(* ones are read back.                                                     *)
(***************************************************************************)
\* items[start:] of a Python list: a negative start counts from the end, and a start
\* beyond either end is moved to that end.
SliceFrom(items, start) ==
    LET n == Len(items)
        from == IF start < 0 THEN (IF n + start < 0 THEN 0 ELSE n + start)
                ELSE (IF start > n THEN n ELSE start)
    IN  SubSeq(items, from + 1, n)

\* FeedbackBuffer.list_recent: list(self._items[-limit:])
FeedbackBufferListRecent(items, limit) == SliceFrom(items, 0 - limit)

\* Number of records added to the buffer in one run.
MaxItems == 3
Limits == 0..(MaxItems + 1)
Records == {FeedbackRecord(Answered(FirstPayload, User(u, ProfileName(u), <<>>, <<>>)), u) : u \in Senders}

Add(record) ==
    /\ Len(feedback_buffer) < MaxItems
    /\ feedback_buffer' = FeedbackBufferAdd(feedback_buffer, record)
    /\ UNCHANGED <<users, vacancies, seen, config_vars, intake_vars, chat_vars, script_vars, view_vars>>

ListRecent(limit) ==
    /\ recent' = [called |-> TRUE, limit |-> limit, items |-> feedback_buffer,
                  answer |-> FeedbackBufferListRecent(feedback_buffer, limit)]
    /\ UNCHANGED <<store_vars, config_vars, intake_vars, chat_vars, script_vars>>

InitBuffer ==
    /\ EmptyStores
    /\ admin_chat_id = NoAdmin
    /\ ctx_sheets = TRUE
    /\ ctx_speech = TRUE
    /\ IdleIntake
    /\ IdleChat
    /\ NoScript

NextBuffer ==
    \/ \E record \in Records : Add(record)
    \/ \E limit \in Limits : ListRecent(limit)

SpecBuffer == InitBuffer /\ [][NextBuffer]_vars

(***************************************************************************)
(* The intake webhook together with the button of the invitation: a        *)
(* reviewer who was sent an invitation for a vacancy presses its           *)
(* start_feedback button.                                                   *)
(***************************************************************************)
Presses == {Button("start_feedback", v) : v \in {"v1", "v2"}}

Invited(u, ev) ==
    \E p \in Deliveries : /\ req[p].event_id # "none" /\ req[p].vacancy_id = ev.arg
                          /\ [to |-> u, ok |-> TRUE] \in {attempts[p][j] : j \in 1..Len(attempts[p])}

NextInvite ==
    \/ NextIntake
    \/ \E u \in UserIds, ev \in Presses : Invited(u, ev) /\ HandleStartFeedback(u, ev)

SpecInvite == InitIntake /\ [][NextInvite]_vars

(***************************************************************************)
(* Claims about the intake webhook.                                        *)
(***************************************************************************)
Processed(p) == secret[p] = GoodSecret /\ pc[p] \in {"notify", "fanout_get", "fanout_send", "done"}
                /\ status[p] # "duplicate"
Upserts(e) == {p \in Deliveries : req[p].event_id = e /\ Processed(p)}
Fanouts(e) == {p \in Deliveries : /\ req[p].event_id = e /\ Processed(p)
                                  /\ req[p].hiring_manager_ids # <<>>}

C2_LaterDeliveryIsNoOp ==
    [][\A p \in Deliveries :
         (after_completed[p] /\ secret[p] = GoodSecret /\ pc'[p] # pc[p]) =>
             /\ pc'[p] = "done" /\ status'[p] = "duplicate"
             /\ UNCHANGED <<users, vacancies, seen, feedback_buffer, attempts>>]_vars

C2_Witness ==
    \E p \in Deliveries :
        /\ after_completed[p] /\ status[p] = "duplicate"
        /\ req[p].vacancy_id = "v2" /\ vacancies["v2"] = NoVacancy
        /\ vacancies["v1"].vacancy_title = "Backend Engineer"

\* C8: a delivery with a wrong or missing secret ends with 401, never calls the dedup
\* store, changes no store and sends nothing; its event_id is not marked by it.
C8_RejectedTouchesNothing ==
    /\ [](\A p \in Deliveries :
            (pc[p] # "idle" /\ secret[p] # GoodSecret) =>
                /\ pc[p] = "done" /\ status[p] = "401"
                /\ ~dedup_checked[p] /\ attempts[p] = <<>>)
    /\ [](\A e \in seen : \E p \in Deliveries :
            /\ secret[p] = GoodSecret /\ req[p].event_id = e
            /\ pc[p] \notin {"idle", "seen", "mark"})
    /\ [][\A p \in Deliveries :
            (pc[p] = "idle" /\ pc'[p] # "idle" /\ secret'[p] # GoodSecret) =>
                UNCHANGED <<users, vacancies, seen, feedback_buffer, attempts>>]_vars

C8_Witness ==
    \E p, q \in Deliveries :
        /\ status[p] = "401" /\ dedup_checked[q] /\ status[q] = "ok"
        /\ req[p].event_id = req[q].event_id

\* C10: a send that fails during the fan-out does not end the loop: every reviewer of
\* the list that is not skipped has had a send attempted once the loop is past it,
\* and the call ends with "ok".
Recipients(p) == {attempts[p][j].to : j \in 1..Len(attempts[p])}
LoopPast(p) == IF pc[p] = "done" THEN Len(req[p].hiring_manager_ids) ELSE idx[p] - 1

C10_FailedSendDoesNotStopFanout ==
    \A p \in Deliveries :
        (Processed(p) /\ req[p].hiring_manager_ids # <<>>) =>
            /\ \A i \in 1..LoopPast(p) :
                   ~Skipped(users[req[p].hiring_manager_ids[i]]) =>
                       req[p].hiring_manager_ids[i] \in Recipients(p)
            /\ pc[p] = "done" => status[p] = "ok"

C10_Witness ==
    \E p \in Deliveries :
        /\ pc[p] = "done" /\ status[p] = "ok"
        /\ attempts[p] = <<[to |-> 42, ok |-> TRUE], [to |-> 7, ok |-> FALSE],
                            [to |-> 9, ok |-> TRUE]>>

\* C11: the fan-out sends at most one invitation to each reviewer of the list, only from
\* the loop, in list order, and goes on to send to a reviewer only when the user it
\* looked up is absent from the Identity Store or stored as "active".
SentTo(p, r) == {j \in 1..Len(attempts[p]) : attempts[p][j].to = r}

C11_OnePerActiveReviewer ==
    /\ [](\A p \in Deliveries :
            (Processed(p) /\ req[p].hiring_manager_ids # <<>>) =>
                /\ \A r \in UserIds : Cardinality(SentTo(p, r)) <= 1
                /\ \A j \in 1..Len(attempts[p]) :
                       \E i \in 1..LoopPast(p) : req[p].hiring_manager_ids[i] = attempts[p][j].to)
    /\ [][\A p \in Deliveries :
            (pc[p] = "fanout_get" /\ pc'[p] = "fanout_send") =>
                LET user == users[req[p].hiring_manager_ids[idx[p]]]
                IN  user = NoUser \/ user.status = "active"]_vars

C11_Witness ==
    \E p \in Deliveries :
        /\ pc[p] = "done" /\ status[p] = "ok"
        /\ req[p].hiring_manager_ids = <<42, 7, 9>>
        /\ users[7] # NoUser /\ users[7].status = "inactive"
        /\ attempts[p] = <<[to |-> 42, ok |-> TRUE], [to |-> 9, ok |-> TRUE]>>

\* C14 as stated: a non-duplicate authenticated delivery with an empty reviewer list
\* stores the assignment under its vacancy_id, answers "no_managers", sends no reviewer
\* an invitation, and has notified an operator channel.
NoReviewers(p) == Processed(p) /\ req[p].hiring_manager_ids = <<>>
StoresAssignment ==
    \A p \in Deliveries :
        (pc[p] = "upsert" /\ pc'[p] # "upsert") =>
            vacancies'[req[p].vacancy_id] =
                VacancyAssignment(req[p].vacancy_id, req[p].vacancy_title,
                                  req[p].recruiter_name, req[p].hiring_manager_ids)

C14_OperatorNotified ==
    /\ [](\A p \in Deliveries :
            (NoReviewers(p) /\ pc[p] = "done") =>
                /\ status[p] = "no_managers"
                /\ \A r \in UserIds : SentTo(p, r) = {}
                /\ \E j \in 1..Len(attempts[p]) : attempts[p][j].to \notin UserIds)
    /\ [][StoresAssignment]_vars

\* C14: such a delivery stores the assignment under its vacancy_id, answers
\* "no_managers" and sends no reviewer an invitation; one message to the operator chat
\* is attempted when an operator chat is configured, and none at all when it is not.
C14_OperatorNotifiedIfConfigured ==
    /\ [](\A p \in Deliveries :
            /\ (NoReviewers(p) /\ pc[p] = "notify") => attempts[p] = <<>>
            /\ (NoReviewers(p) /\ pc[p] = "done") =>
                   /\ status[p] = "no_managers"
                   /\ \A r \in UserIds : SentTo(p, r) = {}
                   /\ IF admin_chat_id = NoAdmin
                      THEN attempts[p] = <<>>
                      ELSE Len(attempts[p]) = 1 /\ attempts[p][1].to = admin_chat_id
            /\ status[p] = "no_managers" => NoReviewers(p))
    /\ [][StoresAssignment]_vars

C14_Witness ==
    \E p \in Deliveries :
        /\ pc[p] = "done" /\ status[p] = "no_managers"
        /\ req[p].event_id = "e2"
        /\ vacancies["v1"] = VacancyAssignment("v1", "Backend Engineer II", Omar, <<>>)
        /\ attempts[p] = <<[to |-> AdminChat, ok |-> TRUE]>>

(***************************************************************************)
(* Claims about the conversation.  A step of the flow is described by the  *)
(* update the handler was run for and the session before and after it.     *)
(***************************************************************************)
Texts(box) == [i \in 1..Len(box) |-> box[i].msg]
Rated(ev) == ev.kind = "text" /\ Strip(ev.text) \in {<<"1">>, <<"2">>, <<"3">>, <<"4">>, <<"5">>}
Commanded(ev) == IsCommand(ev, CmdStart) \/ IsCommand(ev, CmdRegister) \/ IsCommand(ev, CmdFeedback)
SessionKept(u) == fsm_state'[u] = fsm_state[u] /\ fsm_data'[u] = fsm_data[u]
Delivered(call) == call.called /\ call.attempts[Len(call.attempts)] = 200

\* C3: after a "yes" at the Confirm step either the sink call succeeded and the record
\* was not appended to the Fallback Buffer, or it did not succeed and the record was
\* appended once, with the values of the session; never both, never neither.
C3_DeliveredOrBuffered ==
    [][LET u == update'.from
           ev == update'.ev
       IN  (fsm_state[u] = "confirm" /\ ev \in YesTexts) =>
               \/ Delivered(sink_call') /\ feedback_buffer' = feedback_buffer
               \/ /\ ~Delivered(sink_call')
                  /\ feedback_buffer' = Append(feedback_buffer, FeedbackRecord(fsm_data[u], u))]_vars

\* C4 as stated: in a rating state every message that is not an integer in 1..5 leaves
\* the state and the accumulator as they were and is answered with the range re-prompt.
C4_EveryNonRatingReprompts ==
    [][LET u == update'.from
           ev == update'.ev
       IN  (fsm_state[u] \in RatingStates /\ ev.kind # "callback" /\ ~Rated(ev)) =>
               /\ SessionKept(u)
               /\ Texts(outbox') = <<MsgRange(1, 5)>>]_vars

\* C4: in a rating state every message that is neither an integer in 1..5 nor one of
\* the commands /start, /register, /feedback leaves the state and the accumulator as
\* they were, and the one reply attempted is the re-prompt restating the range 1 to 5.
C4_NonRatingReprompts ==
    [][LET u == update'.from
           ev == update'.ev
       IN  (fsm_state[u] \in RatingStates /\ ev.kind # "callback" /\ ~Rated(ev) /\ ~Commanded(ev)) =>
               /\ SessionKept(u)
               /\ Texts(outbox') = <<MsgRange(1, 5)>>
               /\ outbox'[1].to = u]_vars

C4_Witness ==
    \E u \in Senders :
        /\ fsm_state[u] = "timeliness_rating"
        /\ "comms_rating" \in DOMAIN fsm_data[u] /\ "timeliness_rating" \notin DOMAIN fsm_data[u]
        /\ update = [from |-> u, ev |-> TextMsg(<<"0">>)]
        /\ outbox = <<[to |-> u, msg |-> MsgRange(1, 5), ok |-> TRUE]>>

\* C5: a "no" at the Confirm step calls no sink, leaves the Fallback Buffer as it was
\* and clears the session: no state, empty accumulator.
NoTexts == {TextMsg(TextNo), TextMsg(<<"N","O"," ">>)}

C5_NoDiscards ==
    [][LET u == update'.from
           ev == update'.ev
       IN  (fsm_state[u] = "confirm" /\ ev \in NoTexts) =>
               /\ sink_call' = NoSink
               /\ feedback_buffer' = feedback_buffer
               /\ fsm_state'[u] = "none"
               /\ fsm_data'[u] = EmptyData]_vars

C5_Witness ==
    \E u \in Senders :
        /\ update = [from |-> u, ev |-> TextMsg(<<"N","O"," ">>)]
        /\ outbox = <<[to |-> u, msg |-> MsgCanceled, ok |-> FALSE]>>
        /\ fsm_state[u] = "none" /\ fsm_data[u] = EmptyData
        /\ sink_call = NoSink /\ feedback_buffer = <<>>

\* The record the Confirm step built: handed to the sink, or appended to the buffer.
Built == IF sink_call.called THEN sink_call.record ELSE feedback_buffer[Len(feedback_buffer)]
ConfirmedYes == step = Len(script) + 1 /\ (sink_call.called \/ feedback_buffer # <<>>)
Entered(ev) == CHOOSE n \in 1..5 : Strip(ev.text) = <<DigitChars[n + 1]>>
RecruiterChosen(ev) == IF ev = TextMsg(<<" ">> \o Bob \o <<" ">>) THEN Bob ELSE FirstPayload.recruiter_name
RecordedBut(recommendations) ==
    /\ Built.vacancy_id = "v1"
    /\ Built.vacancy_title = FirstPayload.vacancy_title
    /\ Built.overall_rating = Entered(script[2])
    /\ Built.recruiter_name = RecruiterChosen(script[3])
    /\ Built.comms_rating = Entered(script[4])
    /\ Built.timeliness_rating = Entered(script[5])
    /\ Built.relevance_rating = Entered(script[6])
    /\ Built.process_quality_rating = Entered(script[7])
    /\ Built.recommendations = recommendations
    /\ Built.telegram_user_id = update.from /\ update.from \in Reviewers

\* C6 as stated: the record carries the vacancy of the stored assignment, each rating
\* as entered at its step, the recruiter-step result, the sender's id, and as
\* recommendations the text entered at the Recommendations step.
C6_RecordHasTextEntered ==
    (ConfirmedYes /\ script[8].kind = "text") => RecordedBut(script[8].text)

\* C6: the record carries the vacancy of the stored assignment, each rating as entered
\* at its step, the recruiter-step result, the sender's id, and as recommendations the
\* text entered with the surrounding whitespace removed, or the transcript of the voice
\* message.
C6_RecordHasSubmittedValues ==
    ConfirmedYes =>
        RecordedBut(IF script[8].kind = "text" THEN Great ELSE script[8].transcript)

C6_Witness ==
    /\ ConfirmedYes /\ sink_call.called
    /\ script[3] = TextMsg(TextDefault) /\ Built.recruiter_name = Jane
    /\ script[2] = TextMsg(<<" ","5"," ">>) /\ Built.overall_rating = 5
    /\ script[4] = TextMsg(<<"1">>) /\ Built.comms_rating = 1
    /\ script[8] = TextMsg(<<" ">> \o Great \o <<" ">>) /\ Built.recommendations = Great

\* C7 as stated: at the recruiter step "default" in any letter case stores the name
\* seeded from the assignment, and any other text is stored as typed.
DefaultWords == {TextMsg(TextDefault), TextMsg(<<" ","D","e","f","a","u","l","T"," ">>)}
Seeded(u) == vacancies[fsm_data[u].vacancy_id].recruiter_name

C7_OtherTextStoredAsTyped ==
    [][LET u == update'.from
           ev == update'.ev
       IN  (fsm_state[u] = "recruiter" /\ ev.kind = "text") =>
               fsm_data'[u].recruiter_name = IF ev \in DefaultWords THEN Seeded(u) ELSE ev.text]_vars

\* C7: at the recruiter step "default" in any letter case, surrounding whitespace
\* aside, stores the name seeded from the assignment at the last flow entry, never the
\* word itself; any other text that is not a command is stored with its surrounding
\* whitespace removed.
C7_DefaultReusesSeededName ==
    [][LET u == update'.from
           ev == update'.ev
       IN  (fsm_state[u] = "recruiter" /\ ev.kind = "text" /\ ~Commanded(ev)) =>
               /\ fsm_data'[u].recruiter_name =
                      IF ev \in DefaultWords THEN Seeded(u) ELSE Strip(ev.text)
               /\ ev \in DefaultWords => fsm_data'[u].recruiter_name \in {Jane, Unknown}
               /\ fsm_state'[u] = "comms_rating"]_vars

C7_Witness ==
    \E u \in Senders :
        /\ update = [from |-> u, ev |-> TextMsg(<<" ","D","e","f","a","u","l","T"," ">>)]
        /\ fsm_state[u] = "comms_rating"
        /\ fsm_data[u].vacancy_id = "v1" /\ fsm_data[u].recruiter_name = Jane
        /\ Texts(outbox) = <<MsgAskComms>>

\* C9 as stated: a sender absent from the Identity Store who presses a start_feedback
\* button or sends /feedback keeps state and accumulator, writes no assignment, and,
\* unless a send fails, is sent the registration guidance.
EntersFlow(ev) == (ev.kind = "callback" /\ ev.action = "start_feedback") \/ IsCommand(ev, CmdFeedback)
Registering == {"waiting_full_name", "waiting_title", "waiting_contact"}

C9_AbortsWithGuidance ==
    [][LET u == update'.from
           ev == update'.ev
       IN  (users[u] = NoUser /\ EntersFlow(ev)) =>
               /\ SessionKept(u)
               /\ vacancies' = vacancies
               /\ result' = "ok" => \E i \in 1..Len(outbox') : outbox'[i].msg = MsgNotRegistered]_vars

\* C9: a sender absent from the Identity Store who presses a start_feedback button, or
\* sends /feedback outside the registration dialogue, keeps state and accumulator and
\* writes no assignment.  /feedback is answered with the registration guidance; the
\* button is acknowledged and then answered with the guidance when its vacancy is
\* stored and with the unknown-vacancy notice when it is not.
C9_UnregisteredNeverEnters ==
    [][LET u == update'.from
           ev == update'.ev
       IN  (users[u] = NoUser /\ EntersFlow(ev)
            /\ (ev.kind = "text" => fsm_state[u] \notin Registering)) =>
               /\ SessionKept(u)
               /\ vacancies' = vacancies
               /\ users' = users
               /\ IF ev.kind = "text"
                  THEN Texts(outbox') = <<MsgNotRegistered>>
                  ELSE \/ outbox' = <<[to |-> u, msg |-> MsgCallbackAnswer, ok |-> FALSE]>>
                       \/ /\ outbox'[1].ok
                          /\ Texts(outbox') =
                                 <<MsgCallbackAnswer,
                                   IF ev.arg = "v1" THEN MsgNotRegistered ELSE MsgNoVacancy>>]_vars

C9_Witness ==
    \E u \in Senders :
        /\ users[u] = NoUser /\ fsm_state[u] = "none" /\ fsm_data[u] = EmptyData
        /\ vacancies["manual"] = NoVacancy
        /\ update = [from |-> u, ev |-> TextMsg(<<"/">> \o CmdFeedback)]
        /\ outbox = <<[to |-> u, msg |-> MsgNotRegistered, ok |-> TRUE]>>

\* C12: after a "yes" at the Confirm step the session is cleared whatever the write did:
\* sink success, sink failure after the retries, and no sink configured all end with no
\* state and an empty accumulator.
C12_ClearedAfterYes ==
    [][LET u == update'.from
           ev == update'.ev
       IN  (fsm_state[u] = "confirm" /\ ev \in YesTexts) =>
               /\ fsm_state'[u] = "none"
               /\ fsm_data'[u] = EmptyData]_vars

\* C13: with no sink client a "yes" at the Confirm step appends the record to the
\* Fallback Buffer exactly once and the user is sent a message, besides the thanks,
\* that tells of the local buffering.
C13_BufferedAndTold ==
    [][LET u == update'.from
           ev == update'.ev
       IN  (fsm_state[u] = "confirm" /\ ev \in YesTexts /\ ~ctx_sheets) =>
               /\ feedback_buffer' = Append(feedback_buffer, FeedbackRecord(fsm_data[u], u))
               /\ \E i \in 1..Len(outbox') : outbox'[i].to = u /\ outbox'[i].msg # MsgThanks]_vars

\* C17: a session in a feedback state never moves to a state that precedes it in the
\* order of the flow: no text, command or button press takes it backward.
Position(st) == CHOOSE i \in 1..Len(FeedbackOrder) : FeedbackOrder[i] = st
InFlow(st) == \E i \in 1..Len(FeedbackOrder) : FeedbackOrder[i] = st

C17_NeverBackward ==
    [][LET u == update'.from
       IN  (InFlow(fsm_state[u]) /\ InFlow(fsm_state'[u])) =>
               Position(fsm_state'[u]) >= Position(fsm_state[u])]_vars

\* C18: right after a feedback flow is entered by the start_feedback button or by the
\* manual trigger, the session is in the overall rating state and the accumulator holds
\* the four seeded fields and nothing else.
SeedKeys == {"vacancy_id", "vacancy_title", "recruiter_name", "hiring_manager_full_name"}
FlowEntered(box) == box # <<>> /\ box[Len(box)].msg \in {MsgAskOverall, MsgAskOverallManual}

C18_OnlySeededFields ==
    [][LET u == update'.from
           ev == update'.ev
       IN  (EntersFlow(ev) /\ FlowEntered(outbox')) =>
               /\ fsm_state'[u] = "overall_rating"
               /\ DOMAIN fsm_data'[u] = SeedKeys]_vars

\* C19: in a registration or feedback state that has a next state, a message that is
\* not a command, whose replies are all delivered and whose voice file could be
\* downloaded, either advances the session to the next state or leaves the session as
\* it was, and in both cases exactly one message is sent and the handler ends normally.
StepStates == {"waiting_full_name", "waiting_title"} \cup {FeedbackOrder[i] : i \in 1..7}
Successor(st) ==
    IF st = "waiting_full_name" THEN "waiting_title"
    ELSE IF st = "waiting_title" THEN "waiting_contact"
    ELSE FeedbackOrder[Position(st) + 1]
AllDelivered(box) == \A i \in 1..Len(box) : box[i].ok

C19_StoredOrRejected ==
    [][LET u == update'.from
           ev == update'.ev
       IN  (/\ fsm_state[u] \in StepStates
            /\ ev.kind # "callback" /\ ~Commanded(ev)
            /\ AllDelivered(outbox')
            /\ ev.kind = "voice" => ev.download_ok) =>
               /\ result' = "ok"
               /\ Len(outbox') = 1
               /\ fsm_state'[u] = Successor(fsm_state[u]) \/ SessionKept(u)]_vars

\* C20: one append_feedback call makes at most 3 attempts and stops at the first that
\* gets a status below 400; it sleeps 1 after a failed first attempt and 2 after a
\* failed second one, never more than 10; and the caller sees a failure exactly when
\* all 3 attempts failed by transport error or status >= 400.
Failed(code) == code = TransportError \/ code >= 400
FailureSurfaced == outbox # <<>> /\ outbox[1].msg = MsgSheetFailed

C20_ThreeAttemptsWithBackoff ==
    sink_call.called =>
        LET made == sink_call.attempts
        IN  /\ Len(made) \in 1..3
            /\ \A n \in 1..(Len(made) - 1) : Failed(made[n])
            /\ Len(made) < 3 => ~Failed(made[Len(made)])
            /\ sink_call.waits = SubSeq(<<1, 2>>, 1, Len(made) - 1)
            /\ \A n \in 1..Len(sink_call.waits) : sink_call.waits[n] <= 10
            /\ FailureSurfaced <=> (Len(made) = 3 /\ \A n \in 1..3 : Failed(made[n]))

C20_Witness ==
    /\ sink_call.called
    /\ sink_call.attempts = <<TransportError, 500, 200>>
    /\ sink_call.waits = <<1, 2>>
    /\ Texts(outbox) = <<MsgThanks>>

\* C15: two updates of one user are never handled interleaved: while a handler for u
\* that was dispatched in state S is not finished and the session is still in S, no
\* other handler writes the session of u and no other handler for u is started.
Pending(t) == tasks[t].pc # "idle"

C15_OneHandlerPerUser ==
    [][\A t \in TaskIds :
         (Pending(t) /\ tasks'[t] = tasks[t] /\ fsm_state[tasks[t].from] = tasks[t].state) =>
             /\ SessionKept(tasks[t].from)
             /\ \A other \in TaskIds \ {t} :
                    (~Pending(other) /\ tasks'[other].pc # "idle") =>
                        tasks'[other].from # tasks[t].from]_vars

\* C16: while a confirm handler is inside the sink write, in an attempt or in the sleep
\* between two attempts, some handler of another update or of a notification can take
\* a step.
InSinkWrite(t) == tasks[t].pc \in {"append", "sleep"}

C16_OthersProgress ==
    \A t \in TaskIds : InSinkWrite(t) => ENABLED (NextTasks /\ tasks'[t] = tasks[t])

\* C21: the event id is in the dedup set before the assignment is upserted and before
\* any message is sent for it, and the set only grows; so when a delivery has marked
\* its event and has not finished its fan-out, a later delivery of that event is
\* answered "duplicate" and sends nothing.
PastMark(p) == secret[p] = GoodSecret /\ pc[p] \in {"upsert", "notify", "fanout_get", "fanout_send"}

C21_MarkedBeforeProcessing ==
    /\ [](\A p \in Deliveries :
            (PastMark(p) \/ Processed(p) \/ attempts[p] # <<>>) => req[p].event_id \in seen)
    /\ [][seen \subseteq seen']_vars
    /\ [][\A p \in Deliveries :
            (vacancies' # vacancies /\ pc'[p] # pc[p]) => req[p].event_id \in seen]_vars
    /\ [][\A p, q \in Deliveries :
            (/\ PastMark(p) /\ req[q].event_id = req[p].event_id
             /\ pc[q] = "seen" /\ pc'[q] # "seen") =>
                /\ status'[q] = "duplicate" /\ pc'[q] = "done"
                /\ attempts'[q] = <<>>
                /\ UNCHANGED <<vacancies, seen, attempts>>]_vars

C21_Witness ==
    \E p, q \in Deliveries :
        /\ pc[p] = "fanout_get" /\ idx[p] = 2
        /\ req[p].hiring_manager_ids = <<42, 7, 9>> /\ Len(attempts[p]) = 1
        /\ req[q].event_id = req[p].event_id /\ req[p].event_id \in seen
        /\ pc[q] = "done" /\ status[q] = "duplicate" /\ attempts[q] = <<>>
        /\ ~after_completed[q]

\* C22: list_recent(N) answers, for every N >= 0, the min(N, size) records added last,
\* in the order they were added, so nothing for N = 0, and leaves the buffer as it is;
\* add puts the record at the end and leaves the others in place.
Smaller(a, b) == IF a < b THEN a ELSE b
Newest(items, n) == SubSeq(items, Len(items) - n + 1, Len(items))

C22_RecentAreTheLastN ==
    /\ [](recent.called =>
            recent.answer = Newest(recent.items, Smaller(recent.limit, Len(recent.items))))
    /\ [][recent' # recent => feedback_buffer' = feedback_buffer]_vars
    /\ [][feedback_buffer' # feedback_buffer =>
            /\ Len(feedback_buffer') = Len(feedback_buffer) + 1
            /\ SubSeq(feedback_buffer', 1, Len(feedback_buffer)) = feedback_buffer]_vars

\* C23: every record the Confirm step builds, whether it is handed to the sink or
\* appended to the Fallback Buffer, has all five ratings within 1..5.
RatingFields == {"overall_rating", "comms_rating", "timeliness_rating", "relevance_rating",
                 "process_quality_rating"}
ValidRatings(record) == \A field \in RatingFields : record[field] \in MinRating..MaxRating

C23_RatingsInRange ==
    /\ sink_call.called => ValidRatings(sink_call.record)
    /\ \A i \in 1..Len(feedback_buffer) : ValidRatings(feedback_buffer[i])

\* C24: the fan-out skips a reviewer exactly when the user it looked up is stored with
\* a status other than "active"; a reviewer the Identity Store does not hold is sent
\* the invitation, and when that reviewer then presses start_feedback the session is
\* left without state and data, no assignment is written, and the reply, when the
\* sends succeed, is the not-registered message.
LookedUp(p) == users[req[p].hiring_manager_ids[idx[p]]]
PressedBy(u) ==
    /\ update'.from = u
    /\ <<update, outbox, result>>' # <<update, outbox, result>>

C24_UnknownReviewerInvitedNotAdmitted ==
    /\ [][\A p \in Deliveries :
            (pc[p] = "fanout_get" /\ <<pc[p], idx[p]>>' # <<pc[p], idx[p]>>) =>
                /\ (pc'[p] = "fanout_send") <=>
                       (LookedUp(p) = NoUser \/ LookedUp(p).status = "active")
                /\ attempts'[p] = attempts[p]]_vars
    /\ [][\A p \in Deliveries :
            (pc[p] = "fanout_send" /\ pc'[p] # "fanout_send") =>
                /\ Len(attempts'[p]) = Len(attempts[p]) + 1
                /\ attempts'[p][Len(attempts'[p])].to = req[p].hiring_manager_ids[idx[p]]]_vars
    /\ [][\A u \in UserIds :
            (PressedBy(u) /\ users[u] = NoUser) =>
                /\ fsm_state'[u] = "none" /\ fsm_data'[u] = EmptyData
                /\ UNCHANGED <<users, vacancies, feedback_buffer>>
                /\ AllDelivered(outbox') => Texts(outbox') = <<MsgCallbackAnswer, MsgNotRegistered>>]_vars

C24_Witness ==
    \E p \in Deliveries :
        /\ users[9] = NoUser /\ users[7] # NoUser /\ users[7].status = "inactive"
        /\ attempts[p] = <<[to |-> 42, ok |-> TRUE], [to |-> 9, ok |-> TRUE]>>
        /\ update = [from |-> 9, ev |-> Button("start_feedback", "v1")]
        /\ Texts(outbox) = <<MsgCallbackAnswer, MsgNotRegistered>> /\ AllDelivered(outbox)
        /\ fsm_state[9] = "none"
====
